---- MODULE Spec2Model ----
(***************************************************************************)
(* Immich Upload Optimizer: the upload path (newJob, TaskProcessor) and    *)
(* the in-place hash substitution (replaceAllBytes).                       *)
(*                                                                         *)
(* Strings are sequences of one-character strings, so that path.Ext,       *)
(* strings.ToLower, TrimPrefix and TrimSuffix are computed as in the code. *)
(* Each upload request is one goroutine; its position in newJob is pc[r].  *)
(***************************************************************************)
EXTENDS Integers, Sequences, FiniteSets, TLC

\* ------------------------------------------------------------------ bounds
\* Number of upload requests that are handled concurrently.
NumReqs == 2
\* Longest response body handed to replaceAllBytes.
MaxBody == 4
\* Longest match / replacement handed to replaceAllBytes.
MaxPat == 2
\* Form values besides the file, and chunks io.Copy moves the file in.
MaxFields == 1
MaxChunks == 2
\* Lines the checksums file grows to, and initializations of the store.
MaxRecords == 3
MaxStarts == 3
\* Calls of cleanup methods on one TaskProcessor.
MaxCalls == 3

Reqs == 1..NumReqs

\* ------------------------------------------------------------------ strings
UpperChars == <<"A","B","C","D","E","F","G","H","I","J","K","L","M",
                "N","O","P","Q","R","S","T","U","V","W","X","Y","Z">>
LowerChars == <<"a","b","c","d","e","f","g","h","i","j","k","l","m",
                "n","o","p","q","r","s","t","u","v","w","x","y","z">>
DigitChars == {"0","1","2","3","4","5","6","7","8","9"}

ToLowerChar(c) ==
  IF \E i \in 1..Len(UpperChars) : UpperChars[i] = c
  THEN LowerChars[CHOOSE i \in 1..Len(UpperChars) : UpperChars[i] = c]
  ELSE c

ToLower(s) == [i \in 1..Len(s) |-> ToLowerChar(s[i])]

HasPrefix(s, p) == Len(s) >= Len(p) /\ SubSeq(s, 1, Len(p)) = p
HasSuffix(s, p) == Len(s) >= Len(p) /\ SubSeq(s, Len(s) - Len(p) + 1, Len(s)) = p
TrimPrefix(s, p) == IF HasPrefix(s, p) THEN SubSeq(s, Len(p) + 1, Len(s)) ELSE s
TrimSuffix(s, p) == IF HasSuffix(s, p) THEN SubSeq(s, 1, Len(s) - Len(p)) ELSE s

\* path.Ext: the suffix that starts at the last dot of the last path element.
Ext(name) ==
  LET dots == { i \in 1..Len(name) :
                  /\ name[i] = "."
                  /\ \A j \in i..Len(name) : name[j] # "/" }
  IN  IF dots = {} THEN << >>
      ELSE LET i == CHOOSE d \in dots : \A e \in dots : e <= d
           IN  SubSeq(name, i, Len(name))

\* helpers.go isValidFilename: ^[a-zA-Z0-9._-]+$
isValidFilename(s) ==
  /\ Len(s) > 0
  /\ \A i \in 1..Len(s) :
       \/ \E k \in 1..Len(UpperChars) : s[i] = UpperChars[k] \/ s[i] = LowerChars[k]
       \/ s[i] \in DigitChars
       \/ s[i] \in {".", "_", "-"}

\* ------------------------------------------------------------------ sizes
KB == 1024
MB == 1048576

\* fmt "%.2f" of size/unit, as hundredths: nearest, ties to even.  size/unit is
\* exact in float64 for the sizes of the model, so the decimal is rounded from
\* the exact quotient.
Hundredths(size, unit) ==
  LET q == (size * 100) \div unit
      m == (size * 100) % unit
  IN  IF 2 * m > unit THEN q + 1
      ELSE IF 2 * m < unit THEN q
      ELSE IF q % 2 = 0 THEN q ELSE q + 1

\* helpers.go humanReadableSize.  The GB and TB cases (1 << 30, 1 << 40) lie
\* beyond the sizes of the model and are left out.
humanReadableSize(size) ==
  IF size >= MB THEN <<Hundredths(size, MB), "MB">>
  ELSE IF size >= KB THEN <<Hundredths(size, KB), "KB">>
  ELSE <<size, "bytes">>

\* ------------------------------------------------------------------ config
\* helpers.go imageExtensions
imageExtensions ==
  { <<"3","f","r">>, <<"a","r","i">>, <<"a","r","w">>, <<"c","a","p">>,
    <<"c","i","n">>, <<"c","r","2">>, <<"c","r","3">>, <<"c","r","w">>,
    <<"d","c","r">>, <<"d","n","g">>, <<"e","r","f">>, <<"f","f","f">>,
    <<"i","i","q">>, <<"k","2","5">>, <<"k","d","c">>, <<"m","r","w">>,
    <<"n","e","f">>, <<"n","r","w">>, <<"o","r","f">>, <<"o","r","i">>,
    <<"p","e","f">>, <<"p","s","d">>, <<"r","a","f">>, <<"r","a","w">>,
    <<"r","w","2">>, <<"r","w","l">>, <<"s","r","2">>, <<"s","r","f">>,
    <<"s","r","w">>, <<"x","3","f">>, <<"a","v","i","f">>, <<"g","i","f">>,
    <<"j","p","e","g">>, <<"j","p","g">>, <<"p","n","g">>,
    <<"w","e","b","p">>, <<"b","m","p">>, <<"h","e","i","c">>,
    <<"h","e","i","f">>, <<"h","i","f">>, <<"i","n","s","p">>,
    <<"j","p","2">>, <<"j","p","e">>, <<"j","x","l">>, <<"s","v","g">>,
    <<"t","i","f">>, <<"t","i","f","f">> }

\* config.Tasks as loaded from a tasks file with one image rule and one video
\* rule (the shape of the shipped configurations).
Tasks ==
  << [Name |-> "image", Extensions |-> {<<"j","p","g">>, <<"p","n","g">>},
      MinFilesizeBytes |-> KB],
     [Name |-> "video", Extensions |-> {<<"m","o","v">>},
      MinFilesizeBytes |-> 2 * KB] >>

NoTask == [Name |-> "", Extensions |-> {}, MinFilesizeBytes |-> 0]

\* The multipart file headers (Filename, Size) the clients send.
Uploads ==
  { [Filename |-> <<"a",".","j","p","g">>, Size |-> 2048],
    [Filename |-> <<"b",".","M","O","V">>, Size |-> 2048],
    [Filename |-> <<"b",".","M","O","V">>, Size |-> 2047],
    [Filename |-> <<"c",".","t","x","t">>, Size |-> 100] }

\* The values of -max_image_jobs and -max_video_jobs that are explored; the
\* flags are unsigned, so 0 is accepted.
PoolSizes == {0, 1}

\* What an external converter leaves as the size and extension of its output.
ProducedSizes == {2047, 2048, 2049}

\* ------------------------------------------------------------------ state
VARIABLES
  pc,              \* position of request r in handleRequest / newJob / Run
  hdr,             \* formFileHeader of request r (Filename, Size)
  formData,        \* r.MultipartForm still holds its temporary storage
  jobIdCounter,    \* tasks.go jobIdCounter
  jobs,            \* tasks.go jobs (sync.Map): job key -> job ID
  defers,          \* deferred calls of newJob, oldest first
  taskProcessor,   \* the *TaskProcessor of request r, NilTP when nil
  uploadFile,      \* newJob's local uploadFile
  uploadFilename,  \* newJob's local uploadFilename
  uploadOriginal,  \* newJob's local uploadOriginal
  originalHash,    \* newJob's local originalHash
  err,             \* newJob's local err, as NewTaskProcessorFromMultipart set it
  retval,          \* how newJob ended: "none" while running, "nil", "error", "panic"
  status,          \* status written to the client's ResponseWriter
  uploaded,        \* what uploadUpstream was called to send: the file's bytes, its name
  maxImageJobs,    \* flag -max_image_jobs
  maxVideoJobs,    \* flag -max_video_jobs
  imageSemaphore,  \* number of elements in the channel imageSemaphore
  videoSemaphore,  \* number of elements in the channel videoSemaphore
  checksums,       \* the Hash Identity Store: the pairs addChecksums was called with
  tmpfs,           \* paths that exist in the temporary directory
  byteSlice,       \* replaceAllBytes: the slice being rewritten
  old,             \* replaceAllBytes: the match
  new,             \* replaceAllBytes: the replacement
  offset,          \* replaceAllBytes: local offset
  rpc,             \* replaceAllBytes: position
  input,           \* replaceAllBytes: the slice as it was passed in
  upc,             \* uploadUpstream: position of the caller
  wpc,             \* uploadUpstream: position of the writer goroutine
  werr,            \* uploadUpstream: the value the writer is about to send
  errChan,         \* uploadUpstream: errChan, its buffer and whether it is closed
  pipeR,           \* uploadUpstream: the read side of the pipe (the request body)
  pipeWClosed,     \* uploadUpstream: pipeWriter.Close() was called
  cancelled,       \* uploadUpstream: cancel() was called on ctx
  resp,            \* uploadUpstream: resp as Do returned it
  sendErr,         \* uploadUpstream: the error Do returned, "none" before
  errUp,           \* uploadUpstream: the named result err, shared with the writer
  upRet,           \* uploadUpstream: the value returned, "none" before
  clientStatus,    \* uploadUpstream: status the client has been sent
  fields,          \* uploadUpstream: form values the writer has still to write
  chunks,          \* uploadUpstream: file chunks io.Copy has still to write
  csvLines,        \* Hash Identity Store: the lines of the checksums file
  loaded,          \* Hash Identity Store: the relation held in memory
  acked,           \* Hash Identity Store: the pairs whose record was acknowledged
  storeUp,         \* Hash Identity Store: the process is running
  starts,          \* Hash Identity Store: initializations made so far
  hpc,             \* handleRequest: position
  method,          \* handleRequest: r.Method
  urlPath,         \* handleRequest: r.URL.Path
  contentType,     \* handleRequest: r.Header.Get("Content-Type")
  upgradeHeader,   \* handleRequest: r.Header.Get("Upgrade")
  downloadJpgFromJxl,   \* flag -download_jpg_from_jxl
  downloadJpgFromAvif,  \* flag -download_jpg_from_avif
  herr,            \* handleRequest: local err
  handlers,        \* handleRequest: what the request was delegated to, in order
  ctp,             \* cleanup: the TaskProcessor the cleanup methods are called on
  cfs,             \* cleanup: paths that exist in the temporary directory
  lastCall,        \* cleanup: the last call, its faults and the fields before it
  touched,         \* cleanup: paths and files the last call made a system call on
  ccalls           \* cleanup: calls made so far

jobVars == <<pc, hdr, formData, jobIdCounter, jobs, defers, taskProcessor,
             uploadFile, uploadFilename, uploadOriginal,
             originalHash, err, retval, status, uploaded, maxImageJobs,
             maxVideoJobs, imageSemaphore, videoSemaphore, checksums, tmpfs>>
replVars == <<byteSlice, old, new, offset, rpc, input>>
upVars == <<upc, wpc, werr, errChan, pipeR, pipeWClosed, cancelled, resp,
            sendErr, errUp, upRet, clientStatus, fields, chunks>>
storeVars == <<csvLines, loaded, acked, storeUp, starts>>
routeVars == <<hpc, method, urlPath, contentType, upgradeHeader,
               downloadJpgFromJxl, downloadJpgFromAvif, herr, handlers>>
cleanVars == <<ctp, cfs, lastCall, touched, ccalls>>
vars == <<jobVars, replVars, upVars, storeVars, routeVars, cleanVars>>

NilFile == << >>
NoHash == << >>
NoHeader == [Filename |-> << >>, Size |-> 0]
NoUpload == [content |-> << >>, name |-> << >>]

\* tasks.go TaskProcessor (the logger is left out; Task points to the Task of
\* that name)
NilTP ==
  [ Task |-> NoTask.Name, OriginalFile |-> NilFile, OriginalFilename |-> << >>,
    OriginalExtension |-> << >>, OriginalSize |-> 0,
    tempOriginalFilePath |-> << >>, ProcessedFile |-> NilFile,
    ProcessedFilename |-> << >>, ProcessedExtension |-> << >>,
    ProcessedSize |-> 0, tempWorkDir |-> << >> ]

\* Names of the temporary files of request r.
FormFile(r) == <<"form", r>>
TempOriginal(r) == <<"upload", r>>
TempWorkDir(r) == <<"processing", r>>
ProducedNames == << <<"o",".","a","v","i","f">>, <<"o",".","l","o","g">> >>
DirEntries(fs, dir) == { p \in fs : Len(p) = Len(dir) + 1 /\ HasPrefix(p, dir) }

\* The bytes a file holds: the temp original is a copy of the form file.
Content(f) ==
  IF f = NilFile THEN << >>
  ELSE IF f[1] = "processing" THEN <<"processed", f[2]>>
  ELSE <<"original", f[2]>>

\* ------------------------------------------------------------------ helpers
\* tasks.go:214 the job key: "<filename>" (<human readable size>)
FormatJobKey(h) == <<h.Filename, humanReadableSize(h.Size)>>

\* sync.Map Load / Store / Delete
jobsLoad(m, key) == key \in DOMAIN m
jobsStore(m, key, id) ==
  [k \in DOMAIN m \cup {key} |-> IF k = key THEN id ELSE m[k]]
jobsDelete(m, key) == [k \in DOMAIN m \ {key} |-> m[k]]

\* tasks.go:42 the extension a Task is looked up by
CheckExt(originalExtension) == ToLower(TrimPrefix(originalExtension, <<".">>))

\* tasks.go:43-49 the first Task that lists the extension
FindTask(checkExt) ==
  LET hits == { i \in 1..Len(Tasks) : checkExt \in Tasks[i].Extensions }
  IN  IF hits = {} THEN NoTask
      ELSE Tasks[CHOOSE i \in hits : \A j \in hits : i <= j]

\* The minimum-size test with the boundary moved: a file of exactly the minimum
\* size counts as too small.
BelowMinimum_Inclusive(size, task) == size <= task.MinFilesizeBytes

\* tasks.go:54 the minimum-size test
BelowMinimum(size, task) == size < task.MinFilesizeBytes

\* tasks.go:36-56 the error NewTaskProcessorFromMultipart returns before it
\* creates a file, "nil" when it goes on to copy the upload
ChecksError(h) ==
  LET originalExtension == Ext(h.Filename)
      task == FindTask(CheckExt(originalExtension))
  IN  IF ~isValidFilename(originalExtension) THEN "invalid file extension"
      ELSE IF task = NoTask THEN "no task found for file extension"
      ELSE IF BelowMinimum(h.Size, task) THEN "file size is smaller than minimum"
      ELSE "nil"
PassesChecks(h) == ChecksError(h) = "nil"

\* tasks.go:126 which semaphore Run takes a slot of
InImageExtensions(originalExtension) == CheckExt(originalExtension) \in imageExtensions

\* The functions above, tabulated once over the headers of the model.
HeaderTable ==
  [ h \in Uploads |-> [key |-> FormatJobKey(h), matched |-> PassesChecks(h),
                       err |-> ChecksError(h)] ]
ExtensionTable ==
  [ e \in { Ext(h.Filename) : h \in Uploads } |-> InImageExtensions(e) ]
JobKey(h) == HeaderTable[h].key
Matched(h) == HeaderTable[h].matched
IsImageClass(originalExtension) == ExtensionTable[originalExtension]

\* The entry count test that only rejects an empty directory.
OutputCountOK_NonEmpty(n) == n >= 1

\* tasks.go:168 the number of entries Run accepts in the scratch directory
OutputCountOK(n) == n = 1

\* The size comparison with equality going to the processed file.
KeepsOriginal_Strict(t) == t.OriginalSize < t.ProcessedSize

\* tasks.go:239 forward the original when the processed file is not smaller
KeepsOriginal(t) == t.OriginalSize <= t.ProcessedSize

\* tasks.go:93-110 CleanOriginalFile
CleanOriginalFile(t, fs) ==
  [ tp |-> [t EXCEPT !.OriginalFile = NilFile, !.tempOriginalFilePath = << >>],
    fs |-> IF t.tempOriginalFilePath # << >>
           THEN fs \ {t.tempOriginalFilePath} ELSE fs ]

\* CleanWorkDir forgetting the directory without removing it.
CleanWorkDir_KeepsFiles(t, fs) ==
  [ tp |-> [t EXCEPT !.tempWorkDir = << >>], fs |-> fs ]

\* tasks.go:112-122 CleanWorkDir (os.RemoveAll of the scratch directory)
CleanWorkDir(t, fs) ==
  [ tp |-> [t EXCEPT !.tempWorkDir = << >>],
    fs |-> IF t.tempWorkDir = << >> THEN fs
           ELSE { q \in fs : ~HasPrefix(q, t.tempWorkDir) } ]

\* tasks.go:88-91 Close
Close(t, fs) ==
  LET a == CleanOriginalFile(t, fs)
  IN  CleanWorkDir(a.tp, a.fs)

\* tasks.go:246/261 the value SHA1 returns for file f, left uninterpreted
SHA1(f) == <<"sha1", f>>

\* The call with its two arguments exchanged.
RecordChecksums_Swapped(store, newHash, origHash) ==
  store \cup {<<origHash, newHash>>}

\* tasks.go:264 the call addChecksums(newHash, originalHash): the pair of its
\* arguments, in their order, joins the store
RecordChecksums(store, newHash, origHash) == store \cup {<<newHash, origHash>>}

\* ------------------------------------------------------------------ Init
InitJobs ==
  /\ pc = [r \in Reqs |-> "idle"]
  /\ hdr = [r \in Reqs |-> NoHeader]
  /\ formData = [r \in Reqs |-> FALSE]
  /\ jobIdCounter = 0
  /\ jobs = [k \in {} |-> 0]
  /\ defers = [r \in Reqs |-> << >>]
  /\ taskProcessor = [r \in Reqs |-> NilTP]
  /\ uploadFile = [r \in Reqs |-> NilFile]
  /\ uploadFilename = [r \in Reqs |-> << >>]
  /\ uploadOriginal = [r \in Reqs |-> TRUE]
  /\ originalHash = [r \in Reqs |-> NoHash]
  /\ err = [r \in Reqs |-> "nil"]
  /\ retval = [r \in Reqs |-> "none"]
  /\ status = [r \in Reqs |-> "none"]
  /\ uploaded = [r \in Reqs |-> NoUpload]
  /\ maxImageJobs \in PoolSizes
  /\ maxVideoJobs \in PoolSizes
  /\ imageSemaphore = 0
  /\ videoSemaphore = 0
  /\ checksums = {}
  /\ tmpfs = {}

IdleRepl ==
  /\ byteSlice = << >>
  /\ old = << >>
  /\ new = << >>
  /\ offset = 0
  /\ rpc = "off"
  /\ input = << >>

\* No call of uploadUpstream is followed step by step.
IdleUp ==
  /\ upc = "off"
  /\ wpc = "off"
  /\ werr = "nil"
  /\ errChan = [buf |-> << >>, closed |-> FALSE]
  /\ pipeR = "idle"
  /\ pipeWClosed = FALSE
  /\ cancelled = FALSE
  /\ resp = "nil"
  /\ sendErr = "none"
  /\ errUp = "nil"
  /\ upRet = "none"
  /\ clientStatus = "none"
  /\ fields = 0
  /\ chunks = 0

\* The store is not followed: its file is empty and stays so.
IdleStore ==
  /\ csvLines = << >>
  /\ loaded = {}
  /\ acked = {}
  /\ storeUp = TRUE
  /\ starts = 0

\* No request is followed through handleRequest.
IdleRoute ==
  /\ hpc = "off"
  /\ method = ""
  /\ urlPath = ""
  /\ contentType = << >>
  /\ upgradeHeader = << >>
  /\ downloadJpgFromJxl = FALSE
  /\ downloadJpgFromAvif = FALSE
  /\ herr = "nil"
  /\ handlers = << >>

\* The record of a cleanup call: the method, the system calls that fail in it,
\* and the TaskProcessor and the directory as the call found them.
NoCall ==
  [ op |-> "none", closeFails |-> FALSE, removeFails |-> FALSE,
    removeAllFails |-> FALSE, before |-> NilTP, fsBefore |-> {} ]

\* No TaskProcessor is followed through its cleanup methods.
IdleClean ==
  /\ ctp = NilTP
  /\ cfs = {}
  /\ lastCall = NoCall
  /\ touched = {}
  /\ ccalls = 0

Init == InitJobs /\ IdleRepl /\ IdleUp /\ IdleStore /\ IdleRoute /\ IdleClean

\* ------------------------------------------------------------------ newJob
\* Each action is one access to shared state (the job table, a semaphore, the
\* store) or one external event (the command ends, the upload), together with
\* the request's own computation that follows it.

\* newJob returns rv: the deferred calls that were registered run, last
\* registered first (tasks.go:231 taskProcessor.Close, :221 jobs.Delete,
\* :212 formFile.Close, :211 MultipartForm.RemoveAll), on return and on panic
\* alike; the locals go out of scope.  t and fs are the TaskProcessor and the
\* temporary directory as the returning step leaves them.
Return(r, rv, t, fs) ==
  LET has(d) == \E i \in 1..Len(defers[r]) : defers[r][i] = d
  IN  /\ retval' = [retval EXCEPT ![r] = rv]
      /\ tmpfs' = IF has("taskProcessor.Close") THEN Close(t, fs).fs ELSE fs
      /\ jobs' = IF has("jobs.Delete") THEN jobsDelete(jobs, JobKey(hdr[r])) ELSE jobs
      /\ formData' = [formData EXCEPT ![r] = FALSE]
      /\ defers' = [defers EXCEPT ![r] = << >>]
      /\ taskProcessor' = [taskProcessor EXCEPT ![r] = NilTP]
      /\ uploadFile' = [uploadFile EXCEPT ![r] = NilFile]
      /\ uploadFilename' = [uploadFilename EXCEPT ![r] = << >>]
      /\ uploadOriginal' = [uploadOriginal EXCEPT ![r] = TRUE]
      /\ originalHash' = [originalHash EXCEPT ![r] = NoHash]
      /\ err' = [err EXCEPT ![r] = "nil"]
      /\ pc' = [pc EXCEPT ![r] = "done"]

\* tasks.go:204-212 a request arrives: job ID, r.FormFile, the first defers.
\* Requests are numbered by the job ID they draw.
Begin(r) ==
  /\ pc[r] = "idle"
  /\ jobIdCounter = r - 1
  /\ jobIdCounter' = jobIdCounter + 1
  /\ \/ \* r.FormFile fails: newJob returns the error, nothing is written
        /\ pc' = [pc EXCEPT ![r] = "done"]
        /\ retval' = [retval EXCEPT ![r] = "error"]
        /\ UNCHANGED <<hdr, formData, defers>>
     \/ \E h \in Uploads :
        /\ hdr' = [hdr EXCEPT ![r] = h]
        /\ formData' = [formData EXCEPT ![r] = TRUE]
        /\ defers' = [defers EXCEPT ![r] = <<"MultipartForm.RemoveAll", "formFile.Close">>]
        /\ pc' = [pc EXCEPT ![r] = "load"]
        /\ UNCHANGED retval
  /\ UNCHANGED <<jobs, taskProcessor, uploadFile, uploadFilename,
                 uploadOriginal, originalHash, err, status, uploaded, maxImageJobs,
                 maxVideoJobs, imageSemaphore, videoSemaphore, checksums, tmpfs>>
  /\ UNCHANGED <<replVars, upVars, storeVars, routeVars, cleanVars>>

\* tasks.go:214-219 the duplicate check
JobLoad(r) ==
  /\ pc[r] = "load"
  /\ \/ /\ jobsLoad(jobs, JobKey(hdr[r]))
        /\ status' = [status EXCEPT ![r] = "500"]
        /\ Return(r, "error", taskProcessor[r], tmpfs)
     \/ /\ ~jobsLoad(jobs, JobKey(hdr[r]))
        /\ pc' = [pc EXCEPT ![r] = "store"]
        /\ UNCHANGED <<status, retval, tmpfs, jobs, formData, defers,
                       taskProcessor, uploadFile, uploadFilename,
                       uploadOriginal, originalHash, err>>
  /\ UNCHANGED <<hdr, jobIdCounter, uploaded, maxImageJobs, maxVideoJobs,
                 imageSemaphore, videoSemaphore, checksums>>
  /\ UNCHANGED <<replVars, upVars, storeVars, routeVars, cleanVars>>

\* tasks.go:220-235 the registration and its deferred Delete, the locals, and
\* NewTaskProcessorFromMultipart (tasks.go:35-76)
JobStore(r) ==
  /\ pc[r] = "store"
  /\ jobs' = jobsStore(jobs, JobKey(hdr[r]), r)
  /\ uploadFile' = [uploadFile EXCEPT ![r] = FormFile(r)]
  /\ uploadFilename' = [uploadFilename EXCEPT ![r] = hdr[r].Filename]
  /\ uploadOriginal' = [uploadOriginal EXCEPT ![r] = TRUE]
  /\ \/ \* no Task, invalid extension or below the minimum size: err # nil
        /\ ~Matched(hdr[r])
        /\ err' = [err EXCEPT ![r] = HeaderTable[hdr[r]].err]
        /\ defers' = [defers EXCEPT ![r] = Append(@, "jobs.Delete")]
        /\ pc' = [pc EXCEPT ![r] = "upload"]
        /\ UNCHANGED <<taskProcessor, tmpfs, formData>>
     \/ \* os.CreateTemp fails
        /\ Matched(hdr[r])
        /\ err' = [err EXCEPT ![r] = "unable to create temp file"]
        /\ defers' = [defers EXCEPT ![r] = Append(@, "jobs.Delete")]
        /\ pc' = [pc EXCEPT ![r] = "upload"]
        /\ UNCHANGED <<taskProcessor, tmpfs, formData>>
     \/ \* io.Copy into the created temp file fails: nil is returned for the
        \* TaskProcessor and the file stays where it is
        /\ Matched(hdr[r])
        /\ err' = [err EXCEPT ![r] = "unable to write temp file"]
        /\ tmpfs' = tmpfs \cup {TempOriginal(r)}
        /\ defers' = [defers EXCEPT ![r] = Append(@, "jobs.Delete")]
        /\ pc' = [pc EXCEPT ![r] = "upload"]
        /\ UNCHANGED <<taskProcessor, formData>>
     \/ \* a TaskProcessor is returned; the multipart file is released
        /\ Matched(hdr[r])
        /\ err' = [err EXCEPT ![r] = "nil"]
        /\ tmpfs' = tmpfs \cup {TempOriginal(r)}
        /\ taskProcessor' = [taskProcessor EXCEPT ![r] =
             [NilTP EXCEPT
                !.Task = FindTask(CheckExt(Ext(hdr[r].Filename))).Name,
                !.OriginalFile = TempOriginal(r),
                !.OriginalFilename = hdr[r].Filename,
                !.OriginalExtension = Ext(hdr[r].Filename),
                !.OriginalSize = hdr[r].Size,
                !.tempOriginalFilePath = TempOriginal(r)]]
        /\ defers' = [defers EXCEPT ![r] =
                        @ \o <<"jobs.Delete", "taskProcessor.Close">>]
        /\ formData' = [formData EXCEPT ![r] = FALSE]
        /\ pc' = [pc EXCEPT ![r] = "acquire"]
  /\ UNCHANGED <<hdr, jobIdCounter, originalHash, retval, status,
                 uploaded, maxImageJobs, maxVideoJobs, imageSemaphore,
                 videoSemaphore, checksums>>
  /\ UNCHANGED <<replVars, upVars, storeVars, routeVars, cleanVars>>

\* ------------------------------------------------------------------ Run
\* newJob going on after Run whatever Run returned.
AfterRun_IgnoresError(r, runErr, t, fs) ==
  /\ pc' = [pc EXCEPT ![r] = "ran"]
  /\ taskProcessor' = [taskProcessor EXCEPT ![r] = t]
  /\ tmpfs' = fs
  /\ UNCHANGED <<retval, jobs, formData, defers, uploadFile,
                 uploadFilename, uploadOriginal, originalHash, err>>

\* tasks.go:236-238 newJob after taskProcessor.Run() has returned runErr: an error
\* ends the job; otherwise newJob goes on to choose the file to forward.  t and
\* fs are the TaskProcessor and the temporary directory as Run leaves them.
AfterRun(r, runErr, t, fs) ==
  IF runErr # "nil"
  THEN Return(r, runErr, t, fs)
  ELSE /\ pc' = [pc EXCEPT ![r] = "ran"]
       /\ taskProcessor' = [taskProcessor EXCEPT ![r] = t]
       /\ tmpfs' = fs
       /\ UNCHANGED <<retval, jobs, formData, defers, uploadFile,
                      uploadFilename, uploadOriginal, originalHash, err>>

\* A send that gets through with the channel already full.
CanAcquire_Inclusive(held, capacity) == held <= capacity

\* tasks.go:127/130 the send that takes a slot: it blocks while the channel
\* holds as many elements as its capacity
CanAcquire(held, capacity) == held < capacity

\* Run returning without the deferred receive.
Release_Never(r) == UNCHANGED <<imageSemaphore, videoSemaphore>>

\* tasks.go:128/131 the deferred receive gives the slot back as Run returns or
\* panics
Release(r) ==
  IF IsImageClass(taskProcessor[r].OriginalExtension)
  THEN /\ imageSemaphore' = imageSemaphore - 1
       /\ UNCHANGED videoSemaphore
  ELSE /\ videoSemaphore' = videoSemaphore - 1
       /\ UNCHANGED imageSemaphore

\* tasks.go:126-158 take a slot of the semaphore of the file's class, make the
\* scratch directory, render the command template and start the command.  When
\* one of these fails Run returns the error, giving the slot back.
RunAcquire(r) ==
  /\ pc[r] = "acquire"
  /\ IF IsImageClass(taskProcessor[r].OriginalExtension)
     THEN CanAcquire(imageSemaphore, maxImageJobs)
     ELSE CanAcquire(videoSemaphore, maxVideoJobs)
  /\ \/ \* os.MkdirTemp fails
        /\ UNCHANGED <<imageSemaphore, videoSemaphore>>
        /\ AfterRun(r, "error", taskProcessor[r], tmpfs)
     \/ \* CommandTemplate.Execute fails
        /\ UNCHANGED <<imageSemaphore, videoSemaphore>>
        /\ AfterRun(r, "error",
                    [taskProcessor[r] EXCEPT !.tempWorkDir = TempWorkDir(r)],
                    tmpfs \cup {TempWorkDir(r)})
     \/ \* sh -c <command line> is started
        /\ IF IsImageClass(taskProcessor[r].OriginalExtension)
           THEN /\ imageSemaphore' = imageSemaphore + 1
                /\ UNCHANGED videoSemaphore
           ELSE /\ videoSemaphore' = videoSemaphore + 1
                /\ UNCHANGED imageSemaphore
        /\ taskProcessor' = [taskProcessor EXCEPT ![r].tempWorkDir = TempWorkDir(r)]
        /\ tmpfs' = tmpfs \cup {TempWorkDir(r)}
        /\ pc' = [pc EXCEPT ![r] = "running"]
        /\ UNCHANGED <<retval, jobs, formData, defers, uploadFile,
                       uploadFilename, uploadOriginal, originalHash, err>>
  /\ UNCHANGED <<hdr, jobIdCounter, status, uploaded, maxImageJobs,
                 maxVideoJobs, checksums>>
  /\ UNCHANGED <<replVars, upVars, storeVars, routeVars, cleanVars>>

\* tasks.go:239-250 Run has succeeded: choose the file to forward and release
\* the other one.
Choose(r, t, fs) ==
  \/ /\ KeepsOriginal(t)
     /\ uploadFile' = [uploadFile EXCEPT ![r] = t.OriginalFile]
     /\ taskProcessor' = [taskProcessor EXCEPT ![r] = CleanWorkDir(t, fs).tp]
     /\ tmpfs' = CleanWorkDir(t, fs).fs
     /\ pc' = [pc EXCEPT ![r] = "upload"]
     /\ UNCHANGED <<uploadFilename, uploadOriginal, originalHash, err,
                    retval, jobs, formData, defers>>
  \/ \* SHA1 of the original fails: newJob returns the error
     /\ ~KeepsOriginal(t)
     /\ Return(r, "error", t, fs)
  \/ /\ ~KeepsOriginal(t)
     /\ uploadFile' = [uploadFile EXCEPT ![r] = t.ProcessedFile]
     /\ uploadFilename' = [uploadFilename EXCEPT ![r] = t.ProcessedFilename]
     /\ uploadOriginal' = [uploadOriginal EXCEPT ![r] = FALSE]
     /\ originalHash' = [originalHash EXCEPT ![r] = SHA1(t.OriginalFile)]
     /\ taskProcessor' = [taskProcessor EXCEPT ![r] = CleanOriginalFile(t, fs).tp]
     /\ tmpfs' = CleanOriginalFile(t, fs).fs
     /\ pc' = [pc EXCEPT ![r] = "upload"]
     /\ UNCHANGED <<err, retval, jobs, formData, defers>>

\* tasks.go:181-183 the fields Run sets from the single entry it found
Processed(t, path, size) ==
  [t EXCEPT
     !.ProcessedFile = path,
     !.ProcessedSize = size,
     !.ProcessedExtension = Ext(path[Len(path)]),
     !.ProcessedFilename =
        TrimSuffix(t.OriginalFilename, t.OriginalExtension) \o Ext(path[Len(path)])]

\* tasks.go:158-185 the command ends, having written n entries; Run inspects
\* the scratch directory and returns, giving its slot back.  os.Stat failing
\* leaves stat nil, so stat.Size() (tasks.go:181) panics.
RunWait(r) ==
  /\ pc[r] = "running"
  /\ Release(r)
  /\ \E n \in 0..Len(ProducedNames) :
       LET t == taskProcessor[r]
           dir == t.tempWorkDir
           fs == tmpfs \cup { Append(dir, ProducedNames[i]) : i \in 1..n }
           files == DirEntries(fs, dir)
           path == CHOOSE f \in files : TRUE
       IN  \/ \* non-zero exit, or os.ReadDir fails
              /\ AfterRun(r, "error", t, fs)
           \/ \* not exactly one entry
              /\ ~OutputCountOK(Cardinality(files))
              /\ AfterRun(r, "error", t, fs)
           \/ \* os.Open of the entry fails
              /\ OutputCountOK(Cardinality(files))
              /\ AfterRun(r, "error", t, fs)
           \/ \* os.Stat of the entry fails
              /\ OutputCountOK(Cardinality(files))
              /\ Return(r, "panic", [t EXCEPT !.ProcessedFile = path], fs)
           \/ \E size \in ProducedSizes :
              /\ OutputCountOK(Cardinality(files))
              /\ AfterRun(r, "nil", Processed(t, path, size), fs)
  /\ UNCHANGED <<hdr, jobIdCounter, status, uploaded, maxImageJobs,
                 maxVideoJobs, checksums>>
  /\ UNCHANGED <<replVars, upVars, storeVars, routeVars, cleanVars>>

\* tasks.go:239-250 newJob compares the sizes and chooses
JobChoose(r) ==
  /\ pc[r] = "ran"
  /\ Choose(r, taskProcessor[r], tmpfs)
  /\ UNCHANGED <<hdr, jobIdCounter, status, uploaded, maxImageJobs,
                 maxVideoJobs, imageSemaphore, videoSemaphore, checksums>>
  /\ UNCHANGED <<replVars, upVars, storeVars, routeVars, cleanVars>>

\* ------------------------------------------------------------------ newJob, continued
\* tasks.go:258-268 after uploadUpstream has returned: hash the processed file
\* and record the pair, unless the original was uploaded; then newJob returns
AfterUpload(r) ==
  \/ /\ uploadOriginal[r]
     /\ UNCHANGED checksums
     /\ Return(r, "nil", taskProcessor[r], tmpfs)
  \/ \* SHA1 of the processed file fails
     /\ ~uploadOriginal[r]
     /\ UNCHANGED checksums
     /\ Return(r, "error", taskProcessor[r], tmpfs)
  \/ /\ ~uploadOriginal[r]
     /\ checksums' = RecordChecksums(checksums,
                       SHA1(taskProcessor[r].ProcessedFile), originalHash[r])
     /\ Return(r, "nil", taskProcessor[r], tmpfs)

\* tasks.go:253-268 with tasks.go:271-349: uploadUpstream and what follows it
JobUpload(r) ==
  /\ pc[r] = "upload"
  /\ uploaded' = [uploaded EXCEPT ![r] =
                    [content |-> Content(uploadFile[r]), name |-> uploadFilename[r]]]
  /\ \/ \* the upstream's response is relayed to the client
        /\ status' = [status EXCEPT ![r] = "upstream"]
        /\ AfterUpload(r)
     \/ \* relaying the response body fails after its status was written;
        \* http.Error (tasks.go:256) cannot replace that status
        /\ status' = [status EXCEPT ![r] = "upstream"]
        /\ AfterUpload(r)
     \/ \* the request cannot be built, or Do fails and leaves a response:
        \* uploadUpstream returns an error, http.Error (tasks.go:256)
        /\ status' = [status EXCEPT ![r] = "500"]
        /\ AfterUpload(r)
     \/ \* Do fails with a nil response: defer resp.Body.Close() (tasks.go:329)
        \* panics
        /\ UNCHANGED <<status, checksums>>
        /\ Return(r, "panic", taskProcessor[r], tmpfs)
  /\ UNCHANGED <<hdr, jobIdCounter, maxImageJobs, maxVideoJobs, imageSemaphore,
                 videoSemaphore>>
  /\ UNCHANGED <<replVars, upVars, storeVars, routeVars, cleanVars>>

Next ==
  \E r \in Reqs :
    \/ Begin(r)
    \/ JobLoad(r)
    \/ JobStore(r)
    \/ RunAcquire(r)
    \/ RunWait(r)
    \/ JobChoose(r)
    \/ JobUpload(r)

Spec == Init /\ [][Next]_vars

\* Scheduling: a command that was started ends (cmd.Run returns, tasks.go:158),
\* and the Go runtime serves the senders blocked on a channel in the order
\* they arrived, so a send that can go through again and again does go
\* through (tasks.go:127/130).
Fairness ==
  \A r \in Reqs : WF_vars(RunWait(r)) /\ SF_vars(RunAcquire(r))

SpecLive == Init /\ [][Next]_vars /\ Fairness

\* ------------------------------------------------------------------ replaceAllBytes
\* The bytes that bodies, matches and replacements are made of.
Bytes == {"a", "b"}
SeqsUpTo(n) == UNION { [1..k -> Bytes] : k \in 0..n }

\* An index search that compares all but the last byte of sep.
Index_ShortWindow(s, sep) ==
  LET hits == { i \in 0..(Len(s) - Len(sep)) :
                  SubSeq(s, i + 1, i + Len(sep) - 1) = SubSeq(sep, 1, Len(sep) - 1) }
  IN  IF hits = {} THEN -1 ELSE CHOOSE i \in hits : \A j \in hits : i <= j

\* bytes.Index(s, sep): the index of the first instance of sep in s, -1 if
\* there is none; 0 for an empty sep.  Indices count from 0.
Index(s, sep) ==
  LET hits == { i \in 0..(Len(s) - Len(sep)) : SubSeq(s, i + 1, i + Len(sep)) = sep }
  IN  IF hits = {} THEN -1 ELSE CHOOSE i \in hits : \A j \in hits : i <= j

\* A copy that stops after the first element.
CopyAt_FirstOnly(dst, at, src) ==
  [ i \in 1..Len(dst) |->
      IF i = at + 1 /\ Len(src) >= 1 THEN src[1] ELSE dst[i] ]

\* copy(dst[at:], src): overwrites min(len(dst) - at, len(src)) elements.
CopyAt(dst, at, src) ==
  [ i \in 1..Len(dst) |->
      IF i > at /\ i <= at + Len(src) THEN src[i - at] ELSE dst[i] ]

\* The length test turned around.
Refused_Inverted(oldLen, newLen) == newLen < oldLen

\* helpers.go:62 a longer replacement is refused
Refused(oldLen, newLen) == newLen > oldLen

\* A call replaceAllBytes(body, o, n) is made.
CallRepl ==
  /\ byteSlice \in SeqsUpTo(MaxBody)
  /\ old \in SeqsUpTo(MaxPat)
  /\ new \in SeqsUpTo(MaxPat)
  /\ input = byteSlice
  /\ offset = 0
  /\ rpc = "start"

\* helpers.go:60-65
ReplEnter ==
  /\ rpc = "start"
  /\ rpc' = IF Refused(Len(old), Len(new)) THEN "done" ELSE "loop"
  /\ UNCHANGED <<byteSlice, old, new, offset, input>>
  /\ UNCHANGED <<jobVars, upVars, storeVars, routeVars, cleanVars>>

\* helpers.go:66-74 one pass of the loop
ReplLoop ==
  /\ rpc = "loop"
  /\ LET i == Index(SubSeq(byteSlice, offset + 1, Len(byteSlice)), old)
     IN  IF i = -1
         THEN /\ rpc' = "done"
              /\ UNCHANGED <<byteSlice, offset>>
         ELSE /\ byteSlice' = CopyAt(byteSlice, offset + i, new)
              /\ offset' = offset + i + Len(new)
              /\ UNCHANGED rpc
  /\ UNCHANGED <<old, new, input>>
  /\ UNCHANGED <<jobVars, upVars, storeVars, routeVars, cleanVars>>

NextRepl == ReplEnter \/ ReplLoop

InitRepl == InitJobs /\ CallRepl /\ IdleUp /\ IdleStore /\ IdleRoute /\ IdleClean

SpecRepl == InitRepl /\ [][NextRepl]_vars

\* Scheduling: the goroutine that made the call keeps running.
SpecReplLive == InitRepl /\ [][NextRepl]_vars /\ WF_vars(NextRepl)

\* ------------------------------------------------------------------ uploadUpstream
\* One call of uploadUpstream (tasks.go:271-349), followed step by step: the
\* caller, the writer goroutine it starts, and the HTTP transport that reads
\* the request body from the pipe.

\* tasks.go:272-279 the call: pipe, errChan of capacity 1, ctx, and the writer
\* goroutine started
CallUp ==
  /\ upc = "newreq"
  /\ wpc = "fields"
  /\ werr = "nil"
  /\ errChan = [buf |-> << >>, closed |-> FALSE]
  /\ pipeR = "idle"
  /\ pipeWClosed = FALSE
  /\ cancelled = FALSE
  /\ resp = "nil"
  /\ sendErr = "none"
  /\ errUp = "nil"
  /\ upRet = "none"
  /\ clientStatus = "none"
  /\ fields \in 0..MaxFields
  /\ chunks \in 0..MaxChunks

\* The process lives: a panic in the writer goroutine, which nothing recovers,
\* ends it.
Alive == wpc # "crashed"

\* io.Pipe: a Write returns once the reader has taken the bytes, fails once
\* the read side is closed, and blocks otherwise.
PipeWriteOK == pipeR = "draining"
PipeWriteFails == pipeR = "closed"

\* tasks.go:288-291 (and 297-299, 303-305, 309-311, 315-317) the writer's
\* failure path: cancel(), then the error is to be sent
WriterFails(msg) ==
  /\ cancelled' = TRUE
  /\ werr' = msg
  /\ wpc' = "send"

\* tasks.go:282-294 one form value: WriteField assigns to the named result err
\* of uploadUpstream
WriteField ==
  /\ wpc = "fields"
  /\ fields > 0
  /\ \/ /\ PipeWriteOK
        /\ errUp' = "nil"
        /\ fields' = fields - 1
        /\ UNCHANGED <<wpc, werr, cancelled>>
     \/ /\ PipeWriteFails
        /\ errUp' = "closed pipe"
        /\ WriterFails("unable to create form data")
        /\ UNCHANGED fields
  /\ UNCHANGED <<upc, errChan, pipeR, pipeWClosed, resp, sendErr, upRet,
                 clientStatus, chunks>>
  /\ UNCHANGED <<jobVars, replVars, storeVars, routeVars, cleanVars>>

\* tasks.go:295-300 CreateFormFile writes the part's header
CreateFormFile ==
  /\ wpc = "fields"
  /\ fields = 0
  /\ \/ /\ PipeWriteOK
        /\ wpc' = "seek"
        /\ UNCHANGED <<werr, cancelled>>
     \/ /\ PipeWriteFails
        /\ WriterFails("unable to create form data")
  /\ UNCHANGED <<upc, errChan, pipeR, pipeWClosed, resp, sendErr, errUp,
                 upRet, clientStatus, fields, chunks>>
  /\ UNCHANGED <<jobVars, replVars, storeVars, routeVars, cleanVars>>

\* tasks.go:301-306 file.Seek
Seek ==
  /\ wpc = "seek"
  /\ \/ /\ wpc' = "copy"
        /\ UNCHANGED <<werr, cancelled>>
     \/ WriterFails("unable to seek beginning of file")
  /\ UNCHANGED <<upc, errChan, pipeR, pipeWClosed, resp, sendErr, errUp,
                 upRet, clientStatus, fields, chunks>>
  /\ UNCHANGED <<jobVars, replVars, storeVars, routeVars, cleanVars>>

\* tasks.go:307-312 io.Copy(part, file), chunk by chunk
Copy ==
  /\ wpc = "copy"
  /\ \/ /\ chunks > 0
        /\ PipeWriteOK
        /\ chunks' = chunks - 1
        /\ UNCHANGED <<wpc, werr, cancelled>>
     \/ /\ chunks > 0
        /\ PipeWriteFails
        /\ WriterFails("unable to write file in form field")
        /\ UNCHANGED chunks
     \/ \* reading the file fails
        /\ chunks > 0
        /\ WriterFails("unable to write file in form field")
        /\ UNCHANGED chunks
     \/ /\ chunks = 0
        /\ wpc' = "close"
        /\ UNCHANGED <<werr, cancelled, chunks>>
  /\ UNCHANGED <<upc, errChan, pipeR, pipeWClosed, resp, sendErr, errUp,
                 upRet, clientStatus, fields>>
  /\ UNCHANGED <<jobVars, replVars, storeVars, routeVars, cleanVars>>

\* tasks.go:313-318 multipartWriter.Close() writes the closing boundary
CloseForm ==
  /\ wpc = "close"
  /\ \/ /\ PipeWriteOK
        /\ werr' = "nil"
        /\ wpc' = "send"
        /\ UNCHANGED cancelled
     \/ /\ PipeWriteFails
        /\ WriterFails("unable to finish form data")
  /\ UNCHANGED <<upc, errChan, pipeR, pipeWClosed, resp, sendErr, errUp,
                 upRet, clientStatus, fields, chunks>>
  /\ UNCHANGED <<jobVars, replVars, storeVars, routeVars, cleanVars>>

\* A send on a closed channel panics.
SendPanics(ch) == ch.closed

\* tasks.go:290/298/304/310/316/319 errChan <- ...: the one send of the writer
Send ==
  /\ wpc = "send"
  /\ IF SendPanics(errChan)
     THEN /\ wpc' = "crashed"
          /\ UNCHANGED errChan
     ELSE /\ Len(errChan.buf) < 1
          /\ errChan' = [errChan EXCEPT !.buf = Append(@, werr)]
          /\ wpc' = "defer"
  /\ UNCHANGED <<upc, werr, pipeR, pipeWClosed, cancelled, resp, sendErr,
                 errUp, upRet, clientStatus, fields, chunks>>
  /\ UNCHANGED <<jobVars, replVars, storeVars, routeVars, cleanVars>>

\* tasks.go:280-281 the writer's deferred calls: multipartWriter.Close() writes
\* the closing boundary (again), then pipeWriter.Close() ends the body
Deferred ==
  /\ wpc = "defer"
  /\ PipeWriteOK \/ PipeWriteFails
  /\ pipeWClosed' = TRUE
  /\ wpc' = "exited"
  /\ UNCHANGED <<upc, werr, errChan, pipeR, cancelled, resp, sendErr, errUp,
                 upRet, clientStatus, fields, chunks>>
  /\ UNCHANGED <<jobVars, replVars, storeVars, routeVars, cleanVars>>

Writer == WriteField \/ CreateFormFile \/ Seek \/ Copy \/ CloseForm \/ Send \/ Deferred

\* uploadUpstream returns rv: its deferred calls run (tasks.go:278 cancel,
\* tasks.go:275 close(errChan)); on an error newJob calls http.Error
\* (tasks.go:254-257), which sets the status unless one was written already.
UpReturn(rv, ch) ==
  /\ upRet' = rv
  /\ clientStatus' = IF rv # "nil" /\ clientStatus = "none" THEN "500"
                     ELSE clientStatus
  /\ cancelled' = TRUE
  /\ errChan' = [buf |-> ch, closed |-> TRUE]
  /\ upc' = "returned"

\* tasks.go:321-327 http.NewRequestWithContext with the pipe as the body
NewRequest ==
  /\ upc = "newreq"
  /\ Alive
  /\ \/ /\ errUp' = "nil"
        /\ upc' = "do"
        /\ UNCHANGED <<errChan, cancelled, upRet, clientStatus>>
     \/ /\ errUp' = "parse error"
        /\ UpReturn("unable to create POST request", errChan.buf)
  /\ UNCHANGED <<wpc, werr, pipeR, pipeWClosed, resp, sendErr, fields, chunks>>
  /\ UNCHANGED <<jobVars, replVars, storeVars, routeVars, cleanVars>>

\* tasks.go:328 Do has a connection and starts to send the body
DoStart ==
  /\ upc = "do"
  /\ Alive
  /\ upc' = "doing"
  /\ pipeR' = "draining"
  /\ UNCHANGED <<wpc, werr, errChan, pipeWClosed, cancelled, resp, sendErr,
                 errUp, upRet, clientStatus, fields, chunks>>
  /\ UNCHANGED <<jobVars, replVars, storeVars, routeVars, cleanVars>>

\* tasks.go:329 defer resp.Body.Close() evaluates resp.Body: a nil resp is
\* dereferenced
DeferPanics(response) == response = "nil"

\* tasks.go:328-329 Do returns: a response (the whole body sent, or the
\* upstream answering before that), an error and no response (no connection,
\* connection lost, ctx cancelled), or both (CheckRedirect failing).  The
\* panic of line 329 runs the deferred cancel and close(errChan) and unwinds
\* newJob; the client is sent nothing.
DoReturn ==
  /\ upc \in {"do", "doing"}
  /\ Alive
  /\ \E r \in {"nil", "resp"}, e \in {"nil", "error"} :
       /\ upc = "do" => r = "nil"
       /\ r = "nil" => e = "error"
       /\ resp' = r
       /\ sendErr' = e
       /\ errUp' = e
       /\ IF DeferPanics(r)
          THEN /\ upc' = "panicked"
               /\ cancelled' = TRUE
               /\ errChan' = [errChan EXCEPT !.closed = TRUE]
          ELSE /\ upc' = "check"
               /\ UNCHANGED <<cancelled, errChan>>
  /\ UNCHANGED <<wpc, werr, pipeR, pipeWClosed, upRet, clientStatus, fields,
                 chunks>>
  /\ UNCHANGED <<jobVars, replVars, storeVars, routeVars, cleanVars>>

\* tasks.go:330 if err != nil
Check ==
  /\ upc = "check"
  /\ Alive
  /\ upc' = IF errUp # "nil" THEN "select" ELSE "relay"
  /\ UNCHANGED <<wpc, werr, errChan, pipeR, pipeWClosed, cancelled, resp,
                 sendErr, errUp, upRet, clientStatus, fields, chunks>>
  /\ UNCHANGED <<jobVars, replVars, storeVars, routeVars, cleanVars>>

\* tasks.go:331-338 the non-blocking receive from errChan and the error built
Select ==
  /\ upc = "select"
  /\ Alive
  /\ IF errChan.buf # << >> /\ errUp # "nil"
     THEN UpReturn("error writing data to pipe", Tail(errChan.buf))
     ELSE IF errChan.buf # << >>
     THEN UpReturn("unable to POST", Tail(errChan.buf))
     ELSE UpReturn("unable to POST", errChan.buf)
  /\ UNCHANGED <<wpc, werr, pipeR, pipeWClosed, resp, sendErr, errUp, fields,
                 chunks>>
  /\ UNCHANGED <<jobVars, replVars, storeVars, routeVars, cleanVars>>

\* tasks.go:341-348 the upstream's response is relayed to the client
Relay ==
  /\ upc = "relay"
  /\ Alive
  /\ \E rv \in {"nil", "unable to forward response to client"} :
       /\ upRet' = rv
       /\ clientStatus' = "upstream"
       /\ cancelled' = TRUE
       /\ errChan' = [errChan EXCEPT !.closed = TRUE]
       /\ upc' = "returned"
  /\ UNCHANGED <<wpc, werr, pipeR, pipeWClosed, resp, sendErr, errUp, fields,
                 chunks>>
  /\ UNCHANGED <<jobVars, replVars, storeVars, routeVars, cleanVars>>

Caller == NewRequest \/ DoStart \/ DoReturn \/ Check \/ Select \/ Relay

\* net/http: the transport closes the request body, also on errors, possibly
\* after Do has returned.  A request that was never handed to Do is not closed
\* by anyone.
CloseBody ==
  /\ upc = "doing" \/ sendErr # "none"
  /\ Alive
  /\ pipeR # "closed"
  /\ pipeR' = "closed"
  /\ UNCHANGED <<upc, wpc, werr, errChan, pipeWClosed, cancelled, resp,
                 sendErr, errUp, upRet, clientStatus, fields, chunks>>
  /\ UNCHANGED <<jobVars, replVars, storeVars, routeVars, cleanVars>>

NextUp == Writer \/ Caller \/ CloseBody

InitUp == InitJobs /\ IdleRepl /\ CallUp /\ IdleStore /\ IdleRoute /\ IdleClean

SpecUp == InitUp /\ [][NextUp]_vars

\* Scheduling: the Go runtime runs every goroutine that can take a step, and
\* the transport closes the body it was given.
FairnessUp == WF_vars(Writer) /\ WF_vars(Caller) /\ WF_vars(CloseBody)

SpecUpLive == InitUp /\ [][NextUp]_vars /\ FairnessUp

\* ------------------------------------------------------------------ Hash Identity Store
\* The store behind addChecksums (called at tasks.go:264) and initChecksums
\* (called at part_000:85), as the specification describes it: an append-only
\* file of one record per line, loaded in full at initialization, unreadable
\* lines skipped.

ReplacementHashes == {"p1", "p2"}
OriginalHashes == {"o1", "o2"}
Pairs == ReplacementHashes \X OriginalHashes

\* A line that a write cut short left in the file.
CorruptLine == <<"corrupt">>

\* Loading that gives up at the first line it cannot read.
LoadChecksums_StopsAtCorrupt(lines) ==
  { lines[i] : i \in { j \in 1..Len(lines) :
                         \A k \in 1..j : lines[k] # CorruptLine } }

\* Initialization reads every line of the file and skips the ones it cannot
\* read.
LoadChecksums(lines) ==
  { lines[i] : i \in { j \in 1..Len(lines) : lines[j] # CorruptLine } }

\* lookup, original to replacement: the replacements recorded for the hash
Lookup(relation, originalHash_) ==
  { p[1] : p \in { q \in relation : q[2] = originalHash_ } }

\* record(replacementHash, originalHash): the pair is appended to the file
\* and to the relation in memory, and the write is acknowledged
StoreRecord ==
  /\ storeUp
  /\ Len(csvLines) < MaxRecords
  /\ \E p \in Pairs :
       /\ csvLines' = Append(csvLines, p)
       /\ loaded' = loaded \cup {p}
       /\ acked' = acked \cup {p}
  /\ UNCHANGED <<storeUp, starts>>
  /\ UNCHANGED <<jobVars, replVars, upVars, routeVars, cleanVars>>

\* The process stops in the middle of an append: part of a line is in the
\* file, nothing was acknowledged, the memory is gone.
StoreCrashInWrite ==
  /\ storeUp
  /\ Len(csvLines) < MaxRecords
  /\ csvLines' = Append(csvLines, CorruptLine)
  /\ loaded' = {}
  /\ storeUp' = FALSE
  /\ UNCHANGED <<acked, starts>>
  /\ UNCHANGED <<jobVars, replVars, upVars, routeVars, cleanVars>>

\* The process stops: the memory is gone, the file stays.
StoreStop ==
  /\ storeUp
  /\ loaded' = {}
  /\ storeUp' = FALSE
  /\ UNCHANGED <<csvLines, acked, starts>>
  /\ UNCHANGED <<jobVars, replVars, upVars, routeVars, cleanVars>>

\* The process starts: initChecksums loads the file.
StoreStart ==
  /\ ~storeUp
  /\ starts < MaxStarts
  /\ loaded' = LoadChecksums(csvLines)
  /\ storeUp' = TRUE
  /\ starts' = starts + 1
  /\ UNCHANGED <<csvLines, acked>>
  /\ UNCHANGED <<jobVars, replVars, upVars, routeVars, cleanVars>>

NextStore == StoreRecord \/ StoreCrashInWrite \/ StoreStop \/ StoreStart

\* The first start of the process, on an empty file.
FreshStore ==
  /\ csvLines = << >>
  /\ loaded = {}
  /\ acked = {}
  /\ storeUp = FALSE
  /\ starts = 0

InitStore == InitJobs /\ IdleRepl /\ IdleUp /\ FreshStore /\ IdleRoute /\ IdleClean

SpecStore == InitStore /\ [][NextStore]_vars

\* ------------------------------------------------------------------ handleRequest
\* One request through handleRequest (part_000:121-159).

\* Header values, as sequences of characters.
WebsocketLower == <<"w","e","b","s","o","c","k","e","t">>
WebsocketMixed == <<"W","e","b","S","o","c","k","e","t">>
H2c == <<"h","2","c">>
MultipartFormData == <<"m","u","l","t","i","p","a","r","t","/","f","o","r","m","-","d","a","t","a">>
MultipartWithBoundary == MultipartFormData \o <<";"," ","b","o","u","n","d","a","r","y","=","x">>
ApplicationJson == <<"a","p","p","l","i","c","a","t","i","o","n","/","j","s","o","n">>

UpgradeValues == {<< >>, WebsocketLower, WebsocketMixed, H2c}
ContentTypes == {<< >>, MultipartWithBoundary, ApplicationJson}
Methods == {"GET", "POST"}

\* Paths: the upload path, one that the pattern of isOriginalDownloadPath
\* matches, and two that neither matches.
AssetsPath == "/api/assets"
OriginalDownloadPath == "/api/assets/00000000-0000-0000-0000-000000000000/original"
Paths == {AssetsPath, OriginalDownloadPath, "/api/assets/", "/api/albums"}

\* helpers.go:23-25 isAssetsUpload
isAssetsUpload(m, path, ct) ==
  m = "POST" /\ path = AssetsPath /\ HasPrefix(ct, MultipartFormData)

\* helpers.go:53-57 isOriginalDownloadPath
isOriginalDownloadPath(m, path) == m = "GET" /\ path = OriginalDownloadPath

\* part_000:124 the websocket test
IsWebsocket(upgrade) == ToLower(upgrade) = WebsocketLower

\* A request comes in.
CallRoute ==
  /\ hpc = "start"
  /\ method \in Methods
  /\ urlPath \in Paths
  /\ contentType \in ContentTypes
  /\ upgradeHeader \in UpgradeValues
  /\ downloadJpgFromJxl \in BOOLEAN
  /\ downloadJpgFromAvif \in BOOLEAN
  /\ herr = "nil"
  /\ handlers = << >>

\* part_000:124-127 a websocket upgrade is passed on before anything else
RouteUpgrade ==
  /\ hpc = "start"
  /\ IF IsWebsocket(upgradeHeader)
     THEN /\ handlers' = Append(handlers, "upgradeWebSocketRequest")
          /\ hpc' = "returned"
     ELSE /\ hpc' = "convert"
          /\ UNCHANGED handlers
  /\ UNCHANGED <<method, urlPath, contentType, upgradeHeader,
                 downloadJpgFromJxl, downloadJpgFromAvif, herr>>
  /\ UNCHANGED <<jobVars, replVars, upVars, storeVars, cleanVars>>

\* part_000:134-140 the download of an original, converted on demand
RouteConvert ==
  /\ hpc = "convert"
  /\ IF (downloadJpgFromJxl \/ downloadJpgFromAvif)
        /\ isOriginalDownloadPath(method, urlPath)
     THEN /\ handlers' = Append(handlers, "downloadAndConvertImage")
          /\ \E e \in {"nil", "error"} :
               /\ herr' = e
               /\ hpc' = IF e = "nil" THEN "returned" ELSE "switch"
     ELSE /\ hpc' = "switch"
          /\ UNCHANGED <<herr, handlers>>
  /\ UNCHANGED <<method, urlPath, contentType, upgradeHeader,
                 downloadJpgFromJxl, downloadJpgFromAvif>>
  /\ UNCHANGED <<jobVars, replVars, upVars, storeVars, cleanVars>>

\* Going on to the reverse proxy when newJob returned an error.
AfterNewJob_ProxiesOnError(e) == IF e = "nil" THEN "returned" ELSE "proxy"

\* part_000:144-147 after newJob: the error is logged, handleRequest returns
AfterNewJob(e) == "returned"

\* part_000:141-156 the switch
RouteSwitch ==
  /\ hpc = "switch"
  /\ IF herr # "nil"
     THEN /\ hpc' = "proxy"
          /\ UNCHANGED <<herr, handlers>>
     ELSE IF isAssetsUpload(method, urlPath, contentType)
     THEN /\ handlers' = Append(handlers, "newJob")
          /\ \E e \in {"nil", "error"} :
               /\ herr' = e
               /\ hpc' = AfterNewJob(e)
     ELSE \/ \* getChecksumReplacer returns nil
             /\ hpc' = "proxy"
             /\ UNCHANGED <<herr, handlers>>
          \/ \* it returns a replacer: replacer.Replace()
             /\ handlers' = Append(handlers, "replacer.Replace")
             /\ \E e \in {"nil", "error"} :
                  /\ herr' = e
                  /\ hpc' = IF e = "nil" THEN "returned" ELSE "proxy"
  /\ UNCHANGED <<method, urlPath, contentType, upgradeHeader,
                 downloadJpgFromJxl, downloadJpgFromAvif>>
  /\ UNCHANGED <<jobVars, replVars, upVars, storeVars, cleanVars>>

\* part_000:157-158 the plain reverse proxy
RouteProxy ==
  /\ hpc = "proxy"
  /\ handlers' = Append(handlers, "proxy.ServeHTTP")
  /\ hpc' = "returned"
  /\ UNCHANGED <<method, urlPath, contentType, upgradeHeader,
                 downloadJpgFromJxl, downloadJpgFromAvif, herr>>
  /\ UNCHANGED <<jobVars, replVars, upVars, storeVars, cleanVars>>

NextRoute == RouteUpgrade \/ RouteConvert \/ RouteSwitch \/ RouteProxy

InitRoute == InitJobs /\ IdleRepl /\ IdleUp /\ IdleStore /\ CallRoute /\ IdleClean

SpecRoute == InitRoute /\ [][NextRoute]_vars

\* ------------------------------------------------------------------ cleanup
\* The cleanup methods of one TaskProcessor (tasks.go:88-122), with the system
\* calls in them failing or not.

\* tasks.go:93-110 CleanOriginalFile: the file is closed when there is one, the
\* path removed when there is one; both fields are cleared whatever the
\* system calls return, and the error returned is the last one assigned.
CleanOriginalFileWith(t, fs, closeFails, removeFails) ==
  [ tp |-> [t EXCEPT !.OriginalFile = NilFile, !.tempOriginalFilePath = << >>],
    fs |-> IF t.tempOriginalFilePath # << >> /\ ~removeFails
           THEN fs \ {t.tempOriginalFilePath} ELSE fs,
    err |-> IF t.tempOriginalFilePath # << >>
            THEN (IF removeFails THEN "remove" ELSE "nil")
            ELSE IF t.OriginalFile # NilFile /\ closeFails THEN "close"
            ELSE "nil",
    touched |->
      (IF t.OriginalFile # NilFile THEN {<<"Close", t.OriginalFile>>} ELSE {})
      \cup (IF t.tempOriginalFilePath # << >>
            THEN {<<"Remove", t.tempOriginalFilePath>>} ELSE {}) ]

\* tasks.go:112-122 CleanWorkDir
CleanWorkDirWith(t, fs, removeAllFails) ==
  IF t.tempWorkDir = << >>
  THEN [ tp |-> t, fs |-> fs, err |-> "nil", touched |-> {} ]
  ELSE [ tp |-> [t EXCEPT !.tempWorkDir = << >>],
         fs |-> IF removeAllFails THEN fs
                ELSE { q \in fs : ~HasPrefix(q, t.tempWorkDir) },
         err |-> IF removeAllFails THEN "removeAll" ELSE "nil",
         touched |-> {<<"RemoveAll", t.tempWorkDir>>} ]

\* Close giving up when CleanOriginalFile returned an error.
CloseWith_StopsOnError(t, fs, closeFails, removeFails, removeAllFails) ==
  LET a == CleanOriginalFileWith(t, fs, closeFails, removeFails)
      b == CleanWorkDirWith(a.tp, a.fs, removeAllFails)
  IN  IF a.err # "nil" THEN a
      ELSE [ tp |-> b.tp, fs |-> b.fs, err |-> b.err,
             touched |-> a.touched \cup b.touched ]

\* tasks.go:88-91 Close
CloseWith(t, fs, closeFails, removeFails, removeAllFails) ==
  LET a == CleanOriginalFileWith(t, fs, closeFails, removeFails)
      b == CleanWorkDirWith(a.tp, a.fs, removeAllFails)
  IN  [ tp |-> b.tp, fs |-> b.fs, err |-> b.err,
        touched |-> a.touched \cup b.touched ]

\* A TaskProcessor as NewTaskProcessorFromMultipart (tasks.go:58-75) and Run
\* (tasks.go:134, 173) leave it: the original temp file open, the scratch
\* directory made or not, with or without files in it.
CallClean ==
  /\ \E made \in BOOLEAN, n \in 0..Len(ProducedNames) :
       /\ made = FALSE => n = 0
       /\ ctp = [NilTP EXCEPT
                   !.OriginalFile = TempOriginal(1),
                   !.tempOriginalFilePath = TempOriginal(1),
                   !.tempWorkDir = IF made THEN TempWorkDir(1) ELSE << >>]
       /\ cfs = {TempOriginal(1)}
                \cup (IF made THEN {TempWorkDir(1)} ELSE {})
                \cup { Append(TempWorkDir(1), ProducedNames[i]) : i \in 1..n }
  /\ lastCall = NoCall
  /\ touched = {}
  /\ ccalls = 0

\* The state after a call that returned res.
Called(op, cf, rf, raf, res) ==
  /\ ccalls < MaxCalls
  /\ ccalls' = ccalls + 1
  /\ lastCall' = [ op |-> op, closeFails |-> cf, removeFails |-> rf,
                   removeAllFails |-> raf, before |-> ctp, fsBefore |-> cfs ]
  /\ ctp' = res.tp
  /\ cfs' = res.fs
  /\ touched' = res.touched
  /\ UNCHANGED <<jobVars, replVars, upVars, storeVars, routeVars>>

\* tasks.go:248 (and 89) a call of CleanOriginalFile
CallCleanOriginalFile ==
  \E cf, rf \in BOOLEAN :
    Called("CleanOriginalFile", cf, rf, FALSE,
           CleanOriginalFileWith(ctp, cfs, cf, rf))

\* tasks.go:241 (and 90) a call of CleanWorkDir
CallCleanWorkDir ==
  \E raf \in BOOLEAN :
    Called("CleanWorkDir", FALSE, FALSE, raf, CleanWorkDirWith(ctp, cfs, raf))

\* tasks.go:231 a call of Close
CallClose ==
  \E cf, rf, raf \in BOOLEAN :
    Called("Close", cf, rf, raf, CloseWith(ctp, cfs, cf, rf, raf))

NextClean == CallCleanOriginalFile \/ CallCleanWorkDir \/ CallClose

InitClean == InitJobs /\ IdleRepl /\ IdleUp /\ IdleStore /\ IdleRoute /\ CallClean

SpecClean == InitClean /\ [][NextClean]_vars

\* ================================================================== properties
\* What the properties speak of, read off the state.

\* Request r has executed jobs.Store and has not returned yet.
Registered(r) == \E i \in 1..Len(defers[r]) : defers[r][i] = "jobs.Delete"

\* The hashes of the two files of request r, and the pairs that mention them.
ProcessedHash(r) == <<"sha1", Append(TempWorkDir(r), ProducedNames[1])>>
OriginalHash(r) == <<"sha1", TempOriginal(r)>>
HashesOf(r) ==
  {OriginalHash(r)} \cup
  { <<"sha1", Append(TempWorkDir(r), ProducedNames[i])>> : i \in 1..Len(ProducedNames) }
PairsOf(r) == { p \in checksums : p[1] \in HashesOf(r) \/ p[2] \in HashesOf(r) }

\* Run has returned nil for request r with a processed size at least / less
\* than the original size.
ConversionKept(r) ==
  /\ pc[r] \in {"ran", "upload"}
  /\ taskProcessor[r].ProcessedFile # NilFile
  /\ taskProcessor[r].ProcessedSize >= taskProcessor[r].OriginalSize
ConversionShrank(r) ==
  /\ pc[r] \in {"ran", "upload"}
  /\ taskProcessor[r].ProcessedFile # NilFile
  /\ taskProcessor[r].ProcessedSize < taskProcessor[r].OriginalSize

\* The original name with its extension swapped for the produced one (.avif).
DerivedName(name) ==
  IF name = <<"a",".","j","p","g">> THEN <<"a",".","a","v","i","f">>
  ELSE IF name = <<"b",".","M","O","V">> THEN <<"b",".","a","v","i","f">>
  ELSE << >>

\* C1: of two concurrent requests with the same filename and declared size at
\* most one is registered as the active job at any time; the other is rejected
\* before NewTaskProcessorFromMultipart or Run is executed for it.
C1_OneJobPerKey ==
  \A r1, r2 \in Reqs :
    (r1 # r2 /\ hdr[r1] = hdr[r2] /\ Registered(r1)) => ~Registered(r2)

\* C2: a job whose conversion succeeds with processed size >= original size
\* chooses the original file under the original filename, uploadUpstream is
\* called with that file and name, and the step that ends the job leaves the
\* Hash Identity Store as it was.
C2_KeptOriginalForwarded ==
  [][\A r \in Reqs :
       /\ (ConversionKept(r) /\ pc[r] = "ran" /\ pc'[r] # "ran") =>
             /\ pc'[r] = "upload"
             /\ uploadOriginal'[r]
             /\ uploadFile'[r] = TempOriginal(r)
             /\ TempOriginal(r) \in tmpfs'
             /\ uploadFilename'[r] = hdr[r].Filename
             /\ checksums' = checksums
       /\ (ConversionKept(r) /\ pc[r] = "upload" /\ pc'[r] # "upload") =>
             /\ pc'[r] = "done"
             /\ uploaded'[r] = [content |-> <<"original", r>>,
                                name |-> hdr[r].Filename]
             /\ checksums' = checksums
             /\ PairsOf(r)' = {}]_vars

\* A job is about to upload the original after a conversion that produced a
\* file of exactly the original's size.
C2_Witness ==
  \E r \in Reqs :
    /\ pc[r] = "upload"
    /\ taskProcessor[r].ProcessedFile # NilFile
    /\ taskProcessor[r].ProcessedSize = taskProcessor[r].OriginalSize
    /\ uploadFile[r] = TempOriginal(r)
    /\ uploadOriginal[r]

NoTaskOrTooSmall ==
  [ h \in Uploads |->
      LET task == FindTask(CheckExt(Ext(h.Filename)))
      IN  task = NoTask \/ h.Size < task.MinFilesizeBytes ]
AtMinimum ==
  [ h \in Uploads |->
      LET task == FindTask(CheckExt(Ext(h.Filename)))
      IN  task # NoTask /\ h.Size = task.MinFilesizeBytes ]

C5_RunFailureAborts ==
  [][\A r \in Reqs :
       ( /\ pc[r] \in {"acquire", "running"}
         /\ pc'[r] # pc[r]
         /\ pc'[r] # "running"
         /\ ~ ( /\ pc'[r] = "ran"
                /\ taskProcessor'[r].ProcessedFile # NilFile
                /\ taskProcessor'[r].ProcessedFilename # << >> ) )
       => /\ pc'[r] = "done"
          /\ retval'[r] \in {"error", "panic"}
          /\ uploaded'[r] = NoUpload
          /\ checksums' = checksums
          /\ PairsOf(r)' = {}]_vars

\* A job that got a TaskProcessor has ended with an error, with nothing
\* uploaded and no status written.
C5_Witness ==
  \E r \in Reqs :
    /\ pc[r] = "done"
    /\ hdr[r] \in Uploads /\ ~NoTaskOrTooSmall[hdr[r]]
    /\ retval[r] = "error"
    /\ status[r] = "none"
    /\ uploaded[r] = NoUpload
    /\ PairsOf(r) = {}

\* C6: when Run has returned nil the scratch directory holds exactly one
\* entry, the processed file.
C6_ExactlyOneEntry ==
  \A r \in Reqs :
    pc[r] = "ran" =>
      /\ Cardinality(DirEntries(tmpfs, TempWorkDir(r))) = 1
      /\ DirEntries(tmpfs, TempWorkDir(r)) = {taskProcessor[r].ProcessedFile}

\* Run has returned nil over a directory of one entry.
C6_Witness ==
  \E r \in Reqs :
    /\ pc[r] = "ran"
    /\ taskProcessor[r].ProcessedFile \in tmpfs
    /\ Cardinality(DirEntries(tmpfs, TempWorkDir(r))) = 1

\* The requests whose command is running, by class.
RunningOf(image) ==
  { r \in Reqs : pc[r] = "running" /\ IsImageClass(Ext(hdr[r].Filename)) = image }

\* C7: the commands running for image extensions are at most max_image_jobs,
\* those for the other extensions at most max_video_jobs; each semaphore holds
\* the slots of its own class only, and a job waiting for a slot can go on
\* exactly when its own class has a free slot.
C7_PoolBounds ==
  /\ Cardinality(RunningOf(TRUE)) <= maxImageJobs
  /\ Cardinality(RunningOf(FALSE)) <= maxVideoJobs
  /\ imageSemaphore = Cardinality(RunningOf(TRUE))
  /\ videoSemaphore = Cardinality(RunningOf(FALSE))
  /\ \A r \in Reqs :
       pc[r] = "acquire" =>
         ( ENABLED RunAcquire(r) <=>
             IF IsImageClass(Ext(hdr[r].Filename))
             THEN Cardinality(RunningOf(TRUE)) < maxImageJobs
             ELSE Cardinality(RunningOf(FALSE)) < maxVideoJobs )

\* An image job waits for a slot while another image job's command fills the
\* pool.
C7_Witness ==
  \E r1, r2 \in Reqs :
    /\ r1 # r2
    /\ pc[r1] = "running" /\ pc[r2] = "acquire"
    /\ IsImageClass(Ext(hdr[r1].Filename))
    /\ IsImageClass(Ext(hdr[r2].Filename))
    /\ maxImageJobs > 0
    /\ imageSemaphore = maxImageJobs

\* C8: when a job has ended, no temporary file or directory created for it
\* exists any more.
C8_TempFilesRemoved ==
  \A r \in Reqs : pc[r] = "done" => \A p \in tmpfs : p[2] # r

\* C9: the key a job registered is in the table for as long as the job runs,
\* and the table is empty once every request has finished.
C9_KeyHeldForJobDuration ==
  /\ \A r \in Reqs : Registered(r) => JobKey(hdr[r]) \in DOMAIN jobs
  /\ (\A r \in Reqs : pc[r] = "done") => DOMAIN jobs = {}

\* C10: whenever replaceAllBytes returns, the body has the length it came
\* with, and a call with a replacement longer than the match returns the body
\* as it came.
C10_LengthPreserved ==
  /\ Len(byteSlice) = Len(input)
  /\ (rpc = "done" /\ Len(new) > Len(old)) => byteSlice = input

\* A call has returned a rewritten body.
C10_Witness ==
  /\ rpc = "done"
  /\ Len(input) = MaxBody
  /\ byteSlice # input
  /\ Len(byteSlice) = Len(input)

\* The match occurs somewhere in the body.
Occurs(pattern, body) ==
  \E i \in 1..(Len(body) - Len(pattern) + 1) :
    \A k \in 1..Len(pattern) : body[i + k - 1] = pattern[k]

\* C11: a call whose non-empty match does not occur in the body never changes
\* the body, and returns.
C11_NoMatchNoChange ==
  (old # << >> /\ ~Occurs(old, input)) =>
     /\ byteSlice = input
     /\ rpc = "loop" => ENABLED (ReplLoop /\ rpc' = "done")

\* A call with a match that is absent from a non-empty body has returned; the
\* replacement was not refused.
C11_Witness ==
  /\ rpc = "done"
  /\ input # << >>
  /\ old # << >>
  /\ ~Occurs(old, input)
  /\ Len(new) <= Len(old)
  /\ new # old
  /\ byteSlice = input

\* newJob of request r has answered the request as a duplicate: status 500,
\* and uploadUpstream was never called.
RejectedAsDuplicate(r) ==
  pc[r] = "done" /\ status[r] = "500" /\ uploaded[r] = NoUpload

\* C15: two uploads with the same filename and different declared sizes in
\* bytes have different job keys, and a request is only rejected as a
\* duplicate of a request with the same filename and the same size in bytes.
C15_KeyIsNameAndByteSize ==
  /\ \A r1, r2 \in Reqs :
       ( /\ hdr[r1] # NoHeader /\ hdr[r2] # NoHeader
         /\ hdr[r1].Filename = hdr[r2].Filename
         /\ hdr[r1].Size # hdr[r2].Size )
       => JobKey(hdr[r1]) # JobKey(hdr[r2])
  /\ \A r \in Reqs :
       RejectedAsDuplicate(r) =>
         \E q \in Reqs \ {r} : hdr[q] = hdr[r]

\* The scratch directory of request r, or something in it, exists.
ScratchExists(r) == \E p \in tmpfs : HasPrefix(p, TempWorkDir(r))

C17_SlotsReleasedOnExit ==
  /\ imageSemaphore + videoSemaphore
       = Cardinality({ r \in Reqs : pc[r] = "running" })
  /\ (\A r \in Reqs : pc[r] # "running") =>
       imageSemaphore = 0 /\ videoSemaphore = 0

\* Run has ended by a panic for one request and with an error for another,
\* both having held a slot, and no Run call is active.
C17_Witness ==
  \E r1, r2 \in Reqs :
    /\ pc[r1] = "done" /\ retval[r1] = "panic" /\ uploaded[r1] = NoUpload
    /\ pc[r2] = "done" /\ retval[r2] = "error" /\ uploaded[r2] = NoUpload
    /\ hdr[r2] \in Uploads /\ Matched(hdr[r2]) /\ status[r2] = "none"
    /\ imageSemaphore = 0 /\ videoSemaphore = 0

\* C19: when uploadUpstream is about to be called with the processed file,
\* both hashes have been computed and the pair is in the store.
C19_HashedBeforeForwarded ==
  \A r \in Reqs :
    (pc[r] = "upload" /\ ~uploadOriginal[r]) =>
      /\ originalHash[r] = OriginalHash(r)
      /\ <<ProcessedHash(r), OriginalHash(r)>> \in checksums

\* C18: a job waiting for a slot is never failed for waiting, and with the
\* commands ending and the blocked sends served fairly, it gets its slot.
C18_WaitingJobGetsSlot ==
  /\ [][\A r \in Reqs :
          (pc[r] = "acquire" /\ pc'[r] = "done") => ENABLED RunAcquire(r)]_vars
  /\ \A r \in Reqs : (pc[r] = "acquire") ~> (pc[r] # "acquire")

\* The HTTP send has failed and the caller is through with the call.
SendFailedAndOver == sendErr = "error" /\ upc \in {"returned", "panicked"}

\* C13: when Do has failed, uploadUpstream returns an error, the one that
\* names both sides when the writer's status was there to be received, and
\* the client is sent a server error.
C13_SendFailureReported ==
  SendFailedAndOver =>
    /\ upRet \in {"unable to POST", "error writing data to pipe"}
    /\ clientStatus = "500"

\* C14: the writer never sends on errChan once the caller has closed it, so
\* the send never panics.
C14_NoSendOnClosedChannel == wpc # "crashed"

\* C20: once the caller has returned an error, or has left through the panic
\* that follows a failed send, the writer ends: it does not stay blocked on a
\* pipe write or on errChan.
C20_WriterEndsAfterCallerError ==
  ((upc = "returned" /\ upRet # "nil") \/ upc = "panicked")
    ~> (wpc \in {"exited", "crashed"})

C21_RunFailuresReturned ==
  \A r \in Reqs :
    /\ ~(pc[r] = "done" /\ retval[r] = "panic" /\ uploaded[r] = NoUpload)
    /\ pc[r] = "ran" =>
         /\ taskProcessor[r].ProcessedFile # NilFile
         /\ taskProcessor[r].ProcessedSize > 0
         /\ taskProcessor[r].ProcessedExtension # << >>

\* The reference replace-all: scan from the left, replace an occurrence and
\* go on behind it.
RECURSIVE ReplaceAll(_, _, _)
ReplaceAll(body, o, n) ==
  IF Len(body) < Len(o) \/ o = << >> THEN body
  ELSE IF SubSeq(body, 1, Len(o)) = o
       THEN n \o ReplaceAll(SubSeq(body, Len(o) + 1, Len(body)), o, n)
       ELSE <<body[1]>> \o ReplaceAll(Tail(body), o, n)

\* C22: with a non-empty match and a replacement of the same length, the
\* call returns the reference replace-all of the body it was given; while it
\* runs, the slice is that result up to offset and the given body behind it.
C22_EqualLengthReplaceAll ==
  (old # << >> /\ Len(new) = Len(old)) =>
    /\ rpc = "done" => byteSlice = ReplaceAll(input, old, new)
    /\ rpc = "loop" =>
         /\ offset <= Len(input)
         /\ SubSeq(byteSlice, 1, offset)
              = SubSeq(ReplaceAll(input, old, new), 1, offset)
         /\ SubSeq(byteSlice, offset + 1, Len(byteSlice))
              = SubSeq(input, offset + 1, Len(input))

\* A call has returned that replaced two occurrences of a two-byte match, the
\* first of which overlapped a third candidate.
C22_Witness ==
  /\ rpc = "done"
  /\ input = <<"a", "a", "a", "a">>
  /\ old = <<"a", "a">>
  /\ new = <<"b", "a">>
  /\ byteSlice = <<"b", "a", "b", "a">>

\* C25: every call of replaceAllBytes returns.
C25_ReplaceTerminates == <>(rpc = "done")

\* C26: a request whose job has ended without the upstream's response being
\* relayed has been sent an error status.
C26_ErrorStatusWritten ==
  \A r \in Reqs :
    (pc[r] = "done" /\ status[r] # "upstream") => status[r] = "500"

\* C27: a job that called uploadUpstream and answered 500 because it returned
\* an error has no pair in the store.
C27_NoPairAfterFailedUpload ==
  \A r \in Reqs :
    (pc[r] = "done" /\ status[r] = "500" /\ uploaded[r] # NoUpload) =>
       PairsOf(r) = {}

\* The request is classified as an upload.
ClassifiedUpload ==
  /\ method = "POST"
  /\ urlPath = AssetsPath
  /\ HasPrefix(contentType, MultipartFormData)
  /\ ToLower(upgradeHeader) # WebsocketLower

\* C23: a request classified as an upload is never handed to the reverse
\* proxy or to anything but newJob, and once handleRequest has returned it
\* was handed to newJob exactly once; a request with a websocket upgrade
\* header is handed to the upgrade passthrough and to nothing else.
C23_UploadRoutedToNewJobOnly ==
  /\ ClassifiedUpload =>
       /\ \A i \in 1..Len(handlers) : handlers[i] = "newJob"
       /\ Len(handlers) <= 1
       /\ hpc = "returned" => handlers = <<"newJob">>
  /\ (hpc # "off" /\ ToLower(upgradeHeader) = WebsocketLower) =>
       /\ \A i \in 1..Len(handlers) : handlers[i] = "upgradeWebSocketRequest"
       /\ hpc = "returned" => handlers = <<"upgradeWebSocketRequest">>

\* An upload for which newJob returned an error has left handleRequest, with
\* the conversion of downloads switched on.
C23_Witness ==
  /\ ClassifiedUpload
  /\ downloadJpgFromJxl
  /\ hpc = "returned"
  /\ herr = "error"
  /\ handlers = <<"newJob">>

\* C24: Close tries to remove the scratch directory whatever happened to the
\* original file; a failed close of the file does not keep its path from
\* being removed; and a call that finds its resources released already makes
\* no system call and changes nothing.
C24_CleanupIndependentIdempotent ==
  LET b == lastCall.before
      released(f) == f = << >>
  IN
  /\ (lastCall.op = "Close" /\ ~released(b.tempWorkDir)) =>
       /\ <<"RemoveAll", b.tempWorkDir>> \in touched
       /\ ~lastCall.removeAllFails =>
            \A q \in cfs : ~HasPrefix(q, b.tempWorkDir)
  /\ (lastCall.op \in {"CleanOriginalFile", "Close"}
        /\ ~released(b.tempOriginalFilePath)) =>
       /\ <<"Remove", b.tempOriginalFilePath>> \in touched
       /\ ~lastCall.removeFails => b.tempOriginalFilePath \notin cfs
  /\ ( \/ /\ lastCall.op = "CleanOriginalFile"
          /\ released(b.OriginalFile) /\ released(b.tempOriginalFilePath)
       \/ /\ lastCall.op = "CleanWorkDir"
          /\ released(b.tempWorkDir)
       \/ /\ lastCall.op = "Close"
          /\ released(b.OriginalFile) /\ released(b.tempOriginalFilePath)
          /\ released(b.tempWorkDir) ) =>
       /\ touched = {}
       /\ ctp = b
       /\ cfs = lastCall.fsBefore

\* Three calls were made.  In an earlier one the removal of the original temp
\* file failed, so the file is still there; the last one is a Close that
\* found every resource released already.
C24_Witness ==
  /\ ccalls = 3
  /\ lastCall.op = "Close"
  /\ lastCall.before.OriginalFile = NilFile
  /\ lastCall.before.tempOriginalFilePath = << >>
  /\ lastCall.before.tempWorkDir = << >>
  /\ touched = {}
  /\ cfs = {TempOriginal(1)}

====
